---- MODULE Spec2Model ----
(***************************************************************************)
(* Model of webhook_server.py: the Flask handler `webhook` that relays a   *)
(* TradingView alert (POST /webhook) to a Discord webhook.                 *)
(*                                                                         *)
(* Python and JSON values are tagged records, so that values of different  *)
(* Python types can be compared: None is [t |-> "null"], a str is          *)
(* [t |-> "str", s |-> <<characters>>], a number is [t |-> "num", n |-> i],*)
(* a list is [t |-> "list"], a dict is [t |-> "obj", <key> |-> value, ...] *)
(* where a key the dict does not hold is mapped to Absent.                 *)
(***************************************************************************)
EXTENDS Integers, Sequences, FiniteSets, TLC

VARIABLES
    DISCORD_WEBHOOK_URL,  \* module global, read once from the environment
    SECRET_KEY,           \* module global, None or a string set in the source
    legacy_get_json,      \* TRUE: the installed Flask returns None from request.json
                          \* for a non-JSON mimetype (Flask < 2.1); FALSE: it raises 415
    pc,                   \* per worker: "idle", "posting" (inside requests.post), "responded"
    req,                  \* per worker: the request being handled
    parsed,               \* per worker: request.json has been evaluated for this request
    outbound,             \* per worker: the JSON payload of the POST in flight to Discord
    posts,                \* per worker: outbound POSTs made for the current request
    outcome,              \* per worker: what requests.post produced
    resp,                 \* per worker: the response returned to the caller
    startup_config        \* history: the configuration as the process started with it

vars == <<DISCORD_WEBHOOK_URL, SECRET_KEY, legacy_get_json,
          pc, req, parsed, outbound, posts, outcome, resp, startup_config>>

config == <<DISCORD_WEBHOOK_URL, SECRET_KEY, legacy_get_json>>

\* what no action of the program may change
fixed == <<config, startup_config>>

(***************************************************************************)
(* Bounds of the model.                                                    *)
(***************************************************************************)
\* datetime.now() is drawn from the seconds 0..MaxClock of one minute
MaxClock == 1

\* the WSGI server's workers that may run the handler concurrently
Workers == {"w1", "w2"}

(***************************************************************************)
(* Python values.                                                          *)
(***************************************************************************)
None == [t |-> "null"]
Absent == [t |-> "absent"]

Str(chars) == [t |-> "str", s |-> chars]
Num(i) == [t |-> "num", n |-> i]
List == [t |-> "list"]

\* Python truthiness, as `if not DISCORD_WEBHOOK_URL` and `if SECRET_KEY` use it
Truthy(v) ==
    CASE v.t = "null" -> FALSE
      [] v.t = "str"  -> Len(v.s) > 0
      [] v.t = "num"  -> v.n # 0
      [] OTHER        -> TRUE

\* hasattr(v, "get"): only a dict has .get
HasGet(v) == v.t = "obj"

\* dict.get(k, default)
Get(d, k, default) ==
    IF k \in DOMAIN d /\ d[k] # Absent THEN d[k] ELSE default

Lower == <<"a","b","c","d","e","f","g","h","i","j","k","l","m",
           "n","o","p","q","r","s","t","u","v","w","x","y","z">>
Upper == <<"A","B","C","D","E","F","G","H","I","J","K","L","M",
           "N","O","P","Q","R","S","T","U","V","W","X","Y","Z">>

\* str.upper() on one character
UpperChar(c) ==
    IF \E i \in 1..Len(Lower) : Lower[i] = c
    THEN Upper[CHOOSE i \in 1..Len(Lower) : Lower[i] = c]
    ELSE c

\* as upper, but the text is left as it came
upper_identity(chars) == chars

\* str.upper()
upper(chars) == [i \in 1..Len(chars) |-> UpperChar(chars[i])]

Digits == <<"0","1","2","3","4","5","6","7","8","9">>

\* "%02d" of a number below 100
TwoDigits(n) == <<Digits[(n \div 10) + 1], Digits[(n % 10) + 1]>>

\* str(int) for the small non-negative numbers of the model
IntStr(n) == IF n < 10 THEN <<Digits[n + 1]>> ELSE TwoDigits(n)

\* format(v, "") as an f-string applies it to a replacement field
Format(v) ==
    CASE v.t = "str"  -> v.s
      [] v.t = "null" -> <<"N","o","n","e">>
      [] v.t = "num"  -> IntStr(v.n)
      [] v.t = "list" -> <<"[","]">>
      [] OTHER        -> <<"{","}">>

\* datetime.now().strftime("%Y-%m-%d %H:%M:%S"), the clock being at second
\* `now` of 2025-01-01 00:00
strftime(now) ==
    <<"2","0","2","5","-","0","1","-","0","1"," ","0","0",":","0","0",":">>
        \o TwoDigits(now)

(***************************************************************************)
(* The requests the model sends and the answers Discord gives.             *)
(***************************************************************************)
GoodKey == Str(<<"s","3","c","r","e","t">>)
BadKey == Str(<<"g","u","e","s","s">>)

Keys == {Absent, GoodKey, BadKey}
Tickers == {Absent, Str(<<"B","T","C">>), Num(7)}
OrderActions == {Absent, Str(<<"b","u","y">>), Num(1)}
Strategies == {Absent, None} \cup {[t |-> "obj", order_action |-> a] : a \in OrderActions}

\* the JSON objects of the model: every combination of the three recognised fields
Objects ==
    {[t |-> "obj", key |-> k, ticker |-> tk, strategy |-> st] :
        k \in Keys, tk \in Tickers, st \in Strategies}

\* the JSON values a body can decode to
JsonValues == {None, Num(0), Str(<<"h","i">>), List} \cup Objects

EmptyBody == [kind |-> "empty"]
MalformedBody == [kind |-> "malformed"]
JsonBody(v) == [kind |-> "json", value |-> v]

Bodies == {EmptyBody, MalformedBody} \cup {JsonBody(v) : v \in JsonValues}

\* a request: whether its Content-Type is application/json, and its body
Requests ==
    {[is_json |-> TRUE, body |-> b] : b \in Bodies}
        \cup {[is_json |-> FALSE, body |-> b] :
                b \in {EmptyBody, MalformedBody, JsonBody(None),
                       JsonBody([t |-> "obj", key |-> GoodKey, ticker |-> Absent,
                                 strategy |-> Absent])}}

Clock == 0..MaxClock

DiscordResponse(code, text) == [kind |-> "response", status_code |-> code, text |-> text]
RequestException == [kind |-> "RequestException"]

\* what requests.post can produce: a response of any status, or a network error
DiscordResponses ==
    {DiscordResponse(199, <<"e","a","r","l","y">>),
     DiscordResponse(200, <<"o","k">>),
     DiscordResponse(204, <<>>),
     DiscordResponse(299, <<>>),
     DiscordResponse(300, <<"m","o","v","e","d">>),
     DiscordResponse(404, <<"g","o","n","e">>),
     DiscordResponse(404, <<>>)}

(***************************************************************************)
(* The handler, lines 43-110.                                              *)
(***************************************************************************)
\* jsonify(body), code
Response(code, body) == [code |-> code, body |-> body]

ErrorBody(message) == [status |-> "error", message |-> message]

\* Flask's answer to an exception the view lets escape: 500 with an HTML page
UnhandledException == Response(500, [html |-> "Internal Server Error"])

\* as ConfigMissing, but testing `is None`: an empty URL counts as configured
ConfigMissing_IsNone == DISCORD_WEBHOOK_URL = None

\* line 49: `if not DISCORD_WEBHOOK_URL`
ConfigMissing == ~Truthy(DISCORD_WEBHOOK_URL)

\* as request_json, but as get_json(force=True): the mimetype is not looked at
request_json_force(rq) ==
    IF rq.body.kind = "json"
    THEN [raised |-> FALSE, value |-> rq.body.value]
    ELSE [raised |-> TRUE, value |-> None]

\* line 58: `request.json`. Flask decodes the body only when the mimetype is JSON;
\* a body that does not decode raises BadRequest, a non-JSON mimetype raises
\* UnsupportedMediaType (or gives None on Flask < 2.1)
request_json(rq) ==
    IF ~rq.is_json
    THEN [raised |-> ~legacy_get_json, value |-> None]
    ELSE IF rq.body.kind = "json"
         THEN [raised |-> FALSE, value |-> rq.body.value]
         ELSE [raised |-> TRUE, value |-> None]

\* line 59: `if data is None`
IsNone(data) == data = None

\* as secret_check, but with the verdict kept in a flag that all workers share:
\* while an authorized request is in flight, every request passes
secret_check_shared_flag(data) ==
    IF ~Truthy(SECRET_KEY) \/ (\E w \in Workers : pc[w] = "posting") THEN "pass"
    ELSE IF ~HasGet(data) THEN "AttributeError"
    ELSE IF Get(data, "key", None) # SECRET_KEY THEN "Unauthorized"
    ELSE "pass"

\* lines 69-70: "pass", "Unauthorized", or the AttributeError of `data.get`
\* on a value that is not a dict, which no try block encloses
secret_check(data) ==
    IF ~Truthy(SECRET_KEY) THEN "pass"
    ELSE IF ~HasGet(data) THEN "AttributeError"
    ELSE IF Get(data, "key", None) # SECRET_KEY THEN "Unauthorized"
    ELSE "pass"

\* the grave accent character, which a TLA+ string cannot hold
Grave == "GRAVE"

\* the Japanese text that ends the message ("signal detected"), as one token
Detected == "SIGNAL-DETECTED"

\* line 81: the f-string
msg_content(time_str, symbol, signal) ==
    <<"[">> \o time_str \o <<"]"," ","*","*">> \o Format(symbol)
        \o <<"*","*",":"," ",Grave>> \o upper(signal.s)
        \o <<Grave," ",Detected>>

\* line 82
discord_payload(content) == [content |-> content]

\* lines 75-86: the message, or raised = TRUE when the try block catches an
\* exception (.get on a value that is no dict, .upper on a value that is no str)
build_message(data, now) ==
    LET failed == [raised |-> TRUE, payload |-> Absent] IN
    IF ~HasGet(data) THEN failed
    ELSE LET symbol == Get(data, "ticker", Str(<<"u","n","k","n","o","w","n">>))
             strategy == Get(data, "strategy", [t |-> "obj"])
         IN  IF ~HasGet(strategy) THEN failed
             ELSE LET signal == Get(strategy, "order_action", Str(<<"n","o","n","e">>))
                  IN  IF signal.t # "str" THEN failed
                      ELSE [raised |-> FALSE,
                            payload |-> discord_payload(
                                msg_content(strftime(now), symbol, signal))]

Return(response, didParse) ==
    [kind |-> "return", resp |-> response, parsed |-> didParse, payload |-> Absent]

\* lines 46-90: the handler up to the call of requests.post. It returns a response,
\* or reaches requests.post with a payload
webhook_until_post(rq, now) ==
    IF ConfigMissing
    THEN Return(Response(500, ErrorBody("Internal server configuration error")), FALSE)
    ELSE LET j == request_json(rq) IN
         IF j.raised
         THEN Return(Response(400, ErrorBody("Failed to parse JSON")), TRUE)
         ELSE IF IsNone(j.value)
         THEN Return(Response(400, ErrorBody("Invalid JSON or empty body")), TRUE)
         ELSE LET auth == secret_check(j.value) IN
              IF auth = "AttributeError" THEN Return(UnhandledException, TRUE)
              ELSE IF auth = "Unauthorized"
              THEN Return(Response(403, ErrorBody("Unauthorized")), TRUE)
              ELSE LET m == build_message(j.value, now) IN
                   IF m.raised
                   THEN Return(Response(400, ErrorBody("Invalid data format")), TRUE)
                   ELSE [kind |-> "post", resp |-> Absent, parsed |-> TRUE,
                         payload |-> m.payload]

\* as IsSuccess, but with the upper end of the range included
IsSuccess_Inclusive(status_code) == 200 <= status_code /\ status_code <= 300

\* line 94: `200 <= response.status_code < 300`
IsSuccess(status_code) == 200 <= status_code /\ status_code < 300

\* lines 94-104: the response for Discord's answer
relay_response(r) ==
    IF ~IsSuccess(r.status_code)
    THEN Response(502, [status |-> "error",
                        message |-> "Failed to relay message to Discord",
                        discord_response |-> r.text])
    ELSE Response(200, [status |-> "ok"])

(***************************************************************************)
(* The state machine: each worker handles one request at a time.           *)
(***************************************************************************)
Init ==
    /\ DISCORD_WEBHOOK_URL \in {None, Str(<<>>), Str(<<"h","t","t","p","s">>)}
    /\ SECRET_KEY \in {None, Str(<<>>), GoodKey}
    /\ legacy_get_json \in BOOLEAN
    /\ pc = [w \in Workers |-> "idle"]
    /\ req = [w \in Workers |-> Absent]
    /\ parsed = [w \in Workers |-> FALSE]
    /\ outbound = [w \in Workers |-> Absent]
    /\ posts = [w \in Workers |-> 0]
    /\ outcome = [w \in Workers |-> Absent]
    /\ resp = [w \in Workers |-> Absent]
    /\ startup_config = config

\* lines 43-90: a request arrives and the handler runs until it returns or has
\* sent its POST to Discord. The before_request hook (lines 32-39) only reads the
\* raw body for a debug log line and changes nothing
webhook(w) ==
    /\ pc[w] = "idle"
    /\ \E rq \in Requests, now \in Clock :
         LET h == webhook_until_post(rq, now) IN
         /\ req' = [req EXCEPT ![w] = rq]
         /\ parsed' = [parsed EXCEPT ![w] = h.parsed]
         /\ IF h.kind = "return"
            THEN /\ pc' = [pc EXCEPT ![w] = "responded"]
                 /\ resp' = [resp EXCEPT ![w] = h.resp]
                 /\ UNCHANGED <<outbound, posts>>
            ELSE /\ pc' = [pc EXCEPT ![w] = "posting"]
                 /\ outbound' = [outbound EXCEPT ![w] = h.payload]
                 /\ posts' = [posts EXCEPT ![w] = posts[w] + 1]
                 /\ UNCHANGED resp
    /\ UNCHANGED <<fixed, outcome>>

\* lines 90-104: requests.post returns Discord's response
discord_responds(w) ==
    /\ pc[w] = "posting"
    /\ \E r \in DiscordResponses :
         /\ outcome' = [outcome EXCEPT ![w] = r]
         /\ resp' = [resp EXCEPT ![w] = relay_response(r)]
    /\ pc' = [pc EXCEPT ![w] = "responded"]
    /\ outbound' = [outbound EXCEPT ![w] = Absent]
    /\ UNCHANGED <<fixed, req, parsed, posts>>

\* as discord_unreachable, but the POST is sent once more after a network error
discord_unreachable_retry(w) ==
    /\ pc[w] = "posting"
    /\ posts[w] < 3
    /\ posts' = [posts EXCEPT ![w] = posts[w] + 1]
    /\ UNCHANGED <<fixed, pc, req, parsed, outbound, outcome, resp>>

\* lines 106-110: requests.post raises a RequestException (timeout, DNS, refused)
discord_unreachable(w) ==
    /\ pc[w] = "posting"
    /\ outcome' = [outcome EXCEPT ![w] = RequestException]
    /\ resp' = [resp EXCEPT ![w] =
                    Response(503, ErrorBody("Could not connect to Discord"))]
    /\ pc' = [pc EXCEPT ![w] = "responded"]
    /\ outbound' = [outbound EXCEPT ![w] = Absent]
    /\ UNCHANGED <<fixed, req, parsed, posts>>

\* the response has gone to the caller; nothing of the request remains
finish(w) ==
    /\ pc[w] = "responded"
    /\ pc' = [pc EXCEPT ![w] = "idle"]
    /\ req' = [req EXCEPT ![w] = Absent]
    /\ parsed' = [parsed EXCEPT ![w] = FALSE]
    /\ posts' = [posts EXCEPT ![w] = 0]
    /\ outcome' = [outcome EXCEPT ![w] = Absent]
    /\ resp' = [resp EXCEPT ![w] = Absent]
    /\ UNCHANGED <<fixed, outbound>>

Next ==
    \E w \in Workers :
        \/ webhook(w)
        \/ discord_responds(w)
        \/ discord_unreachable(w)
        \/ finish(w)

Spec == Init /\ [][Next]_vars

(***************************************************************************)
(* Vocabulary of the properties.                                           *)
(***************************************************************************)
Responded(w) == pc[w] = "responded"
Posting(w) == pc[w] = "posting"

UrlUnset == DISCORD_WEBHOOK_URL = None \/ DISCORD_WEBHOOK_URL = Str(<<>>)
SecretSet == SECRET_KEY # None /\ SECRET_KEY # Str(<<>>)

\* the request decodes to a JSON value other than null
HasPayload(rq) == rq.is_json /\ rq.body.kind = "json" /\ rq.body.value # None
Payload(rq) == rq.body.value

IsObject(v) == v.t = "obj"
Field(v, k) == IF k \in DOMAIN v THEN v[k] ELSE Absent

\* needle occurs in hay as a contiguous run of characters
Contains(hay, needle) ==
    \E i \in 0..(Len(hay) - Len(needle)) :
        \A j \in 1..Len(needle) : hay[i + j] = needle[j]

\* u is s with each lower-case letter replaced by its capital
IsUpperCased(u, s) ==
    /\ Len(u) = Len(s)
    /\ \A i \in 1..Len(s) :
         IF \E k \in 1..26 : Lower[k] = s[i]
         THEN \E k \in 1..26 : Lower[k] = s[i] /\ Upper[k] = u[i]
         ELSE u[i] = s[i]

\* hay holds the upper-cased form of s
ContainsUpperCased(hay, s) ==
    \E i \in 0..(Len(hay) - Len(s)) :
        IsUpperCased([j \in 1..Len(s) |-> hay[i + j]], s)

ErrorResponse(code, message) ==
    [code |-> code, body |-> [status |-> "error", message |-> message]]

(***************************************************************************)
(* C1. With the webhook URL unset (None or empty), every request gets 500  *)
(* "Internal server configuration error", request.json is never evaluated  *)
(* and no POST goes to Discord.                                            *)
(***************************************************************************)
C1_ConfigError ==
    UrlUnset =>
        \A w \in Workers :
            /\ ~Posting(w)
            /\ posts[w] = 0
            /\ outbound[w] = Absent
            /\ ~parsed[w]
            /\ Responded(w) =>
                 resp[w] = ErrorResponse(500, "Internal server configuration error")

\* an empty URL, and a request that would be relayed had the URL been set
C1_Witness ==
    /\ DISCORD_WEBHOOK_URL = Str(<<>>)
    /\ ~SecretSet
    /\ \E w \in Workers :
         /\ Responded(w)
         /\ HasPayload(req[w])
         /\ IsObject(Payload(req[w]))
         /\ Payload(req[w]).strategy = Absent
         /\ resp[w].code = 500

(***************************************************************************)
(* C2. With a secret and the URL set, every request whose JSON payload has *)
(* a key other than the secret, or no key, gets 403 "Unauthorized" and no  *)
(* POST goes to Discord.                                                   *)
(***************************************************************************)
C2_Unauthorized ==
    (SecretSet /\ ~UrlUnset) =>
        \A w \in Workers :
            (pc[w] # "idle" /\ HasPayload(req[w])
                /\ Field(Payload(req[w]), "key") # SECRET_KEY) =>
                    /\ Responded(w)
                    /\ resp[w] = ErrorResponse(403, "Unauthorized")
                    /\ posts[w] = 0

(***************************************************************************)
(* C3. A request that reached requests.post is answered by the outcome     *)
(* alone: 2xx gives 200 ok, any other status gives 502 with Discord's body *)
(* as discord_response, a network error gives 503; and 200 is returned     *)
(* only after Discord answered with a 2xx status.                          *)
(***************************************************************************)
C3_OutcomeMapping ==
    \A w \in Workers :
        Responded(w) =>
            /\ (posts[w] > 0 /\ outcome[w].kind = "response"
                  /\ outcome[w].status_code \in 200..299) =>
                    resp[w] = [code |-> 200, body |-> [status |-> "ok"]]
            /\ (posts[w] > 0 /\ outcome[w].kind = "response"
                  /\ outcome[w].status_code \notin 200..299) =>
                    resp[w] = [code |-> 502,
                               body |-> [status |-> "error",
                                         message |-> "Failed to relay message to Discord",
                                         discord_response |-> outcome[w].text]]
            /\ (posts[w] > 0 /\ outcome[w].kind = "RequestException") =>
                    resp[w] = ErrorResponse(503, "Could not connect to Discord")
            /\ resp[w].code = 200 =>
                    /\ posts[w] = 1
                    /\ outcome[w] # Absent
                    /\ outcome[w].kind = "response"
                    /\ outcome[w].status_code \in 200..299

\* Discord answered 300, just outside the range, and the caller got 502
C3_Witness ==
    \E w \in Workers :
        /\ Responded(w)
        /\ outcome[w] # Absent
        /\ outcome[w].kind = "response"
        /\ outcome[w].status_code = 300
        /\ resp[w].code = 502

(***************************************************************************)
(* C4. With the URL set, a request whose body is empty, is not JSON, is    *)
(* the JSON value null, or is not sent as application/json gets 400 and no *)
(* POST goes to Discord.                                                   *)
(***************************************************************************)
Undecodable(rq) ==
    \/ ~rq.is_json
    \/ rq.body.kind \in {"empty", "malformed"}
    \/ rq.body = JsonBody(None)

C4_BadBody ==
    ~UrlUnset =>
        \A w \in Workers :
            (pc[w] # "idle" /\ Undecodable(req[w])) =>
                /\ Responded(w)
                /\ resp[w].code = 400
                /\ posts[w] = 0

\* a well-formed alert with the right key, sent without the JSON content type
C4_Witness ==
    /\ ~UrlUnset
    /\ \E w \in Workers :
         /\ Responded(w)
         /\ ~req[w].is_json
         /\ req[w].body.kind = "json"
         /\ req[w].body.value # None
         /\ resp[w].code = 400

(***************************************************************************)
(* C5. With the URL set, a request with an empty body gets 400 with the    *)
(* message "Invalid JSON or empty body".                                   *)
(***************************************************************************)
C5_EmptyBody ==
    ~UrlUnset =>
        \A w \in Workers :
            (Responded(w) /\ req[w].body = EmptyBody) =>
                resp[w] = ErrorResponse(400, "Invalid JSON or empty body")

(***************************************************************************)
(* C6. The content sent to Discord holds the ticker as it came and the     *)
(* order action upper-cased; "unknown" stands for a missing ticker and     *)
(* "NONE" for a missing strategy or order_action; the content is not       *)
(* empty and it is the only field of the payload.                          *)
(***************************************************************************)
C6_Content ==
    \A w \in Workers :
        Posting(w) =>
            LET data == Payload(req[w])
                content == outbound[w].content
                ticker == Field(data, "ticker")
                strategy == Field(data, "strategy")
                action == IF strategy = Absent THEN Absent
                          ELSE Field(strategy, "order_action")
            IN  /\ DOMAIN outbound[w] = {"content"}
                /\ Len(content) > 0
                /\ ticker.t = "str" => Contains(content, ticker.s)
                /\ ticker = Absent => Contains(content, <<"u","n","k","n","o","w","n">>)
                /\ action = Absent => Contains(content, <<"N","O","N","E">>)
                /\ action # Absent =>
                     /\ action.t = "str"
                     /\ ContainsUpperCased(content, action.s)
                /\ action = Str(<<"b","u","y">>) => Contains(content, <<"B","U","Y">>)

\* the alert of the spec's scenario: a ticker and the order action "buy"
C6_Witness ==
    \E w \in Workers :
        /\ Posting(w)
        /\ Payload(req[w]).ticker = Str(<<"B","T","C">>)
        /\ Payload(req[w]).strategy # Absent
        /\ Payload(req[w]).strategy.order_action = Str(<<"b","u","y">>)
        /\ Contains(outbound[w].content, <<"*","*","B","T","C","*","*">>)

(***************************************************************************)
(* C7. A request causes at most one POST to Discord: one when it passed    *)
(* every stage (answered 200, 502 or 503), none when it was turned away    *)
(* (500, 400, 403); a failed POST is not sent again.                       *)
(***************************************************************************)
C7_OnePost ==
    \A w \in Workers :
        /\ posts[w] <= 1
        /\ Posting(w) => posts[w] = 1
        /\ (Responded(w) /\ resp[w].code \in {200, 502, 503}) => posts[w] = 1
        /\ (Responded(w) /\ resp[w].code \in {500, 400, 403}) => posts[w] = 0

\* the POST failed at the network and the caller has its 503
C7_Witness ==
    \E w \in Workers :
        /\ Responded(w)
        /\ outcome[w] = RequestException
        /\ resp[w].code = 503
        /\ posts[w] = 1

(***************************************************************************)
(* C8. Every response has a code in {200, 400, 403, 500, 502, 503} and a   *)
(* JSON object body with status "ok" (with 200 only) or "error" and a      *)
(* message; no exception escapes the handler; 500 only when the URL is     *)
(* unset.                                                                  *)
(***************************************************************************)
C8_ResponseShape ==
    \A w \in Workers :
        Responded(w) =>
            /\ resp[w].code \in {200, 400, 403, 500, 502, 503}
            /\ "status" \in DOMAIN resp[w].body
            /\ resp[w].body.status \in {"ok", "error"}
            /\ resp[w].body.status = "ok" <=> resp[w].code = 200
            /\ resp[w].body.status = "error" => "message" \in DOMAIN resp[w].body
            /\ resp[w] # UnhandledException
            /\ resp[w].code = 500 => UrlUnset

(***************************************************************************)
(* C9. With the URL set, a request whose JSON payload has the wrong shape  *)
(* (not an object, strategy not an object, order_action not a string)      *)
(* gets 400 "Invalid data format" and no POST goes to Discord, with or     *)
(* without a secret.                                                       *)
(***************************************************************************)
WrongShape(v) ==
    \/ ~IsObject(v)
    \/ /\ Field(v, "strategy") # Absent
       /\ \/ ~IsObject(Field(v, "strategy"))
          \/ /\ Field(Field(v, "strategy"), "order_action") # Absent
             /\ Field(Field(v, "strategy"), "order_action").t # "str"

C9_InvalidFormat ==
    ~UrlUnset =>
        \A w \in Workers :
            (pc[w] # "idle" /\ HasPayload(req[w]) /\ WrongShape(Payload(req[w]))) =>
                /\ Responded(w)
                /\ resp[w] = ErrorResponse(400, "Invalid data format")
                /\ posts[w] = 0

(***************************************************************************)
(* C10. The configuration always equals its startup value, and two         *)
(* requests with the same body, content type and Discord outcome get the   *)
(* same response, whatever was handled before or beside them.              *)
(***************************************************************************)
C10_Stateless ==
    /\ config = startup_config
    /\ \A w1, w2 \in Workers :
         (Responded(w1) /\ Responded(w2)
            /\ req[w1] = req[w2] /\ outcome[w1] = outcome[w2]) =>
                resp[w1] = resp[w2]

\* C10 as stated: the response is a function of the body (not of the content
\* type), the configuration and the Discord outcome
C10_BodyOnly ==
    /\ config = startup_config
    /\ \A w1, w2 \in Workers :
         (Responded(w1) /\ Responded(w2)
            /\ req[w1].body = req[w2].body /\ outcome[w1] = outcome[w2]) =>
                resp[w1] = resp[w2]

\* both workers have answered the same request, turned away by the secret check
C10_Witness ==
    /\ SecretSet
    /\ ~UrlUnset
    /\ Responded("w1")
    /\ Responded("w2")
    /\ req["w1"] = req["w2"]
    /\ resp["w1"].code = 403
    /\ resp["w2"].code = 403

====
